---- MODULE Spec2Model ----
(***************************************************************************)
(* Model of s3-sync-tool.py: an interactive script that installs rclone    *)
(* when missing, prompts for an S3 configuration, verifies the credentials *)
(* and runs "rclone sync" (optionally a dry run first).                    *)
(*                                                                         *)
(* Text is modelled as a sequence of one-character strings, so that the    *)
(* string handling of the script (strip, lower, startswith, replace,       *)
(* lstrip, split) is computed rather than assumed.                         *)
(***************************************************************************)
EXTENDS Integers, Sequences, FiniteSets, TLC

(***************************************************************************)
(* Bounds of the model                                                     *)
(***************************************************************************)
\* Largest number of times the block of S3 prompts is presented in one run.
MaxRounds == 3

(***************************************************************************)
(* Python string operations                                                *)
(***************************************************************************)
\* str.strip() / str.lstrip() / str.rstrip() remove whitespace.
IsSpace(c) == c \in {" ", "\t"}

RECURSIVE LStripWs(_)
LStripWs(s) ==
    IF s = <<>> THEN <<>>
    ELSE IF IsSpace(Head(s)) THEN LStripWs(Tail(s)) ELSE s

RECURSIVE RStripWs(_)
RStripWs(s) ==
    IF s = <<>> THEN <<>>
    ELSE IF IsSpace(s[Len(s)]) THEN RStripWs(SubSeq(s, 1, Len(s) - 1)) ELSE s

Strip(s) == RStripWs(LStripWs(s))

\* str.lower(), on the letters the model types.
LowerChar(c) ==
    CASE c = "Y" -> "y"
      [] c = "E" -> "e"
      [] c = "S" -> "s"
      [] c = "N" -> "n"
      [] c = "O" -> "o"
      [] OTHER -> c

Lower(s) == [i \in 1..Len(s) |-> LowerChar(s[i])]

\* str.startswith(p)
StartsWith(s, p) == Len(s) >= Len(p) /\ SubSeq(s, 1, Len(p)) = p

\* str.replace(old, ''): every non-overlapping occurrence, left to right.
RECURSIVE ReplaceWithEmpty(_, _)
ReplaceWithEmpty(s, old) ==
    IF s = <<>> THEN <<>>
    ELSE IF StartsWith(s, old)
         THEN ReplaceWithEmpty(SubSeq(s, Len(old) + 1, Len(s)), old)
         ELSE <<Head(s)>> \o ReplaceWithEmpty(Tail(s), old)

\* Variant: only one leading slash is dropped.
LStripOneSlash(s) == IF s # <<>> /\ Head(s) = "/" THEN Tail(s) ELSE s

\* str.lstrip('/')
RECURSIVE LStripSlash(_)
LStripSlash(s) ==
    IF s = <<>> THEN <<>>
    ELSE IF Head(s) = "/" THEN LStripSlash(Tail(s)) ELSE s

\* The elements of a list.
Range(s) == { s[i] : i \in 1..Len(s) }

\* c in s
Contains(s, c) == \E i \in 1..Len(s) : s[i] = c

\* Index of the first occurrence of c in s (0 when absent).
FirstIndex(s, c) ==
    IF Contains(s, c) THEN CHOOSE i \in 1..Len(s) :
                              s[i] = c /\ \A j \in 1..(i - 1) : s[j] # c
    ELSE 0

\* str.split(c, 1): one part when c is absent, otherwise two.
SplitOnce(s, c) ==
    IF Contains(s, c)
    THEN <<SubSeq(s, 1, FirstIndex(s, c) - 1),
           SubSeq(s, FirstIndex(s, c) + 1, Len(s))>>
    ELSE <<s>>

\* str.split(c): all parts.
RECURSIVE SplitAll(_, _)
SplitAll(s, c) ==
    IF Contains(s, c)
    THEN <<SubSeq(s, 1, FirstIndex(s, c) - 1)>>
             \o SplitAll(SubSeq(s, FirstIndex(s, c) + 1, Len(s)), c)
    ELSE <<s>>

(***************************************************************************)
(* Literals of the script                                                  *)
(***************************************************************************)
ArnPrefix == <<"a","r","n",":","a","w","s",":","s","3",":",":",":">>
DefaultRegion == <<"u","s","-","e","a","s","t","-","1">>
S3Remote == <<"s","3",":">>
Yes == <<"y","e","s">>
No == <<"n","o">>
RcloneName == <<"r","c","l","o","n","e">>
ConfigFlag == <<"-","-","c","o","n","f","i","g">>
SyncWord == <<"s","y","n","c">>
ProgressFlag == <<"-","-","p","r","o","g","r","e","s","s">>
VerboseFlag == <<"-","-","v","e","r","b","o","s","e">>
ExcludeFlag == <<"-","-","e","x","c","l","u","d","e","=">>
DeleteAfterFlag == <<"-","-","d","e","l","e","t","e","-","a","f","t","e","r">>
DryRunFlag == <<"-","-","d","r","y","-","r","u","n">>
TempConfigName == <<"/","t","m","p","/","c","f","g">>
UserBinRclone == <<"~","/","b","i","n","/","r","c","l","o","n","e">>

(***************************************************************************)
(* What the user may type                                                  *)
(***************************************************************************)
\* Marks a prompt that was not presented.
NotAsked == <<"<not asked>">>

\* Answers to the yes/no prompts.
YesNoAnswers == { Yes, <<"Y","E","S"," ">>, No, <<"y">>, <<>> }

\* An ARN whose removal by str.replace uncovers another ARN prefix.
NestedArn ==
    ArnPrefix \o SubSeq(ArnPrefix, 1, 7) \o ArnPrefix
              \o SubSeq(ArnPrefix, 8, 13) \o <<"b">>

BucketAnswers ==
    { <<>>, <<"b">>, <<" ","b"," ">>, <<"a","/","b">>,
      ArnPrefix, ArnPrefix \o <<"b">>, NestedArn }
ArnProceedAnswers == { Yes, <<"Y","E","S"," ">>, No }
BucketRetryAnswers == { <<>>, <<"b">>, ArnPrefix \o <<"b">> }
RegionAnswers == { <<>>, <<" ">>, <<" ","e","u">> }
PathAnswers ==
    { <<>>, <<" ">>, <<"/">>, <<" ","/","/","p">>, <<"p","/","q">> }
AccessKeyAnswers == { <<>>, <<"k">> }
SecretKeyAnswers == { <<" ">>, <<"s"," ">> }


(***************************************************************************)
(* get_s3_config: the value computed from one round of answers             *)
(***************************************************************************)
\* input(...).strip().lower() == 'yes' (lines 303-304, 379-380, 499-500, 557-558)
IsYes(answer) == Lower(Strip(answer)) = Yes

\* The rounds of answers the prompts of get_s3_config can collect from the
\* given answers.  The ARN questions are presented only on the paths of
\* lines 300-307.
RoundsOver(buckets, regions, paths, accessKeys, secretKeys) ==
    { a \in [ bucket : buckets,
              arnProceed : ArnProceedAnswers \cup {NotAsked},
              bucketRetry : BucketRetryAnswers \cup {NotAsked},
              region : regions,
              path : paths,
              access : accessKeys,
              secret : secretKeys ] :
        /\ (a.arnProceed # NotAsked) <=> StartsWith(Strip(a.bucket), ArnPrefix)
        /\ (a.bucketRetry # NotAsked) <=>
              (a.arnProceed # NotAsked /\ ~IsYes(a.arnProceed)) }

\* The rounds get_s3_config is examined on by itself.
AnswerRounds ==
    RoundsOver(BucketAnswers, RegionAnswers, PathAnswers, AccessKeyAnswers,
               SecretKeyAnswers)

\* The rounds typed in the runs of the whole script.
MainAnswerRounds ==
    RoundsOver({ <<>>, <<" ","b"," ">>, <<"a","/","b">>, ArnPrefix \o <<"b">> },
               { <<>> }, { <<>>, <<"/">>, <<"/","p">> }, { <<"k">> },
               SecretKeyAnswers)

\* lines 297-307
BucketNameOf(a) ==
    LET bucket_name == Strip(a.bucket)
        extracted_name == ReplaceWithEmpty(bucket_name, ArnPrefix)
    IN  IF StartsWith(bucket_name, ArnPrefix)
        THEN IF IsYes(a.arnProceed) THEN extracted_name
                                    ELSE Strip(a.bucketRetry)
        ELSE bucket_name

\* Variant: the answer is taken as typed, without the default.
RegionOfNoDefault(answer) == Strip(answer)

\* lines 309-312
RegionOf(answer) ==
    LET region == Strip(answer)
    IN  IF region = <<>> THEN DefaultRegion ELSE region

\* lines 331-336
S3PathOf(bucket_name, answer) ==
    LET destination_path == Strip(answer)
    IN  IF destination_path # <<>>
        THEN S3Remote \o bucket_name \o <<"/">> \o LStripSlash(destination_path)
        ELSE S3Remote \o bucket_name

\* Variant: the secret key is not looked at.
RequiredPresentButSecret(bucket_name, access_key, secret_key) ==
    ~(bucket_name = <<>> \/ access_key = <<>>)

\* lines 326-329: the round is rejected and the prompts are presented again
RequiredPresent(bucket_name, access_key, secret_key) ==
    ~(bucket_name = <<>> \/ access_key = <<>> \/ secret_key = <<>>)

\* lines 338-344
ConfigOf(a) ==
    [ bucket_name |-> BucketNameOf(a),
      region      |-> RegionOf(a.region),
      s3_path     |-> S3PathOf(BucketNameOf(a), a.path),
      access_key  |-> Strip(a.access),
      secret_key  |-> Strip(a.secret) ]

NoConfig ==
    [ bucket_name |-> <<>>, region |-> <<>>, s3_path |-> <<>>,
      access_key |-> <<>>, secret_key |-> <<>> ]

NoAnswers ==
    [ bucket |-> NotAsked, arnProceed |-> NotAsked, bucketRetry |-> NotAsked,
      region |-> NotAsked, path |-> NotAsked, access |-> NotAsked,
      secret |-> NotAsked ]


(***************************************************************************)
(* get_sync_options and the rclone command line                            *)
(***************************************************************************)
DryRunAnswers == { <<>>, No, <<"N","O">>, Yes }
DeleteAnswers == { <<>>, Yes, No }
ExcludeAnswers == { <<>>, <<"x", ",", " ", "y">> }

\* lines 392-404
OptionsOf(dry_run, delete, exclude) ==
    [ dry_run |-> Lower(Strip(dry_run)) # No,
      delete  |-> Lower(Strip(delete)) = Yes,
      exclude |-> IF Strip(exclude) # <<>>
                  THEN [ i \in 1..Len(SplitAll(Strip(exclude), ",")) |->
                             Strip(SplitAll(Strip(exclude), ",")[i]) ]
                  ELSE <<>> ]

NoOptions == [ dry_run |-> TRUE, delete |-> FALSE, exclude |-> <<>> ]

\* line 411
RcloneExecutable(rclone_path) ==
    IF rclone_path # <<>> THEN rclone_path ELSE RcloneName

\* lines 440-445
S3Dest(config) ==
    LET after_remote == SplitOnce(config.s3_path, ":")[2]
    IN  IF Contains(after_remote, "/")
        THEN S3Remote \o config.bucket_name \o <<"/">>
                      \o SplitOnce(after_remote, "/")[2]
        ELSE S3Remote \o config.bucket_name

\* lines 448-468
BuildCmd(rclone_path, source, config, opts) ==
    <<RcloneExecutable(rclone_path), ConfigFlag, TempConfigName, SyncWord,
      source, S3Dest(config), ProgressFlag, VerboseFlag>>
      \o [ i \in 1..Len(opts.exclude) |-> ExcludeFlag \o opts.exclude[i] ]
      \o (IF opts.delete THEN <<DeleteAfterFlag>> ELSE <<>>)
      \o (IF opts.dry_run THEN <<DryRunFlag>> ELSE <<>>)

\* list.remove(x): drops the first element equal to x
ListRemove(list, x) ==
    LET i == CHOOSE k \in 1..Len(list) :
                 list[k] = x /\ \A j \in 1..(k - 1) : list[j] # x
    IN  SubSeq(list, 1, i - 1) \o SubSeq(list, i + 1, Len(list))

\* The command line asks rclone for a dry run.
HasDryRunFlag(command) == \E i \in 1..Len(command) : command[i] = DryRunFlag

(***************************************************************************)
(* State                                                                   *)
(***************************************************************************)
VARIABLES
    pc,             \* position of main
    exitCode,       \* -1 while running, then the exit status of the process
    RCLONE_PATH,    \* the global of line 602 (<<>> is None)
    installLog,     \* the commands install_rclone_linux has run, in order
    source_dir,     \* main's source_dir
    answers,        \* the round of answers last given to get_s3_config
    s3_config,      \* main's s3_config
    promptRounds,   \* how often the S3 prompts were presented
    configCalls,    \* how often main called get_s3_config
    steps,          \* the steps main has started, in order
    options,        \* main's options
    cmd,            \* run_rclone_sync's cmd
    invocations,    \* the rclone sync command lines run, with their results
    tempFile,       \* the temporary rclone config file
    proceedAnswers, \* the answers given to the prompt of line 499, in order
    success,        \* what run_rclone_sync returned
    confirmAnswer,  \* the answer to the prompt of line 577
    failures,       \* the kinds of failure that occurred
    choiceAsked,    \* the failures after which a continue/abort choice was put
    printed         \* the reports printed

vars == <<pc, exitCode, RCLONE_PATH, installLog, source_dir, answers, s3_config,
          promptRounds, configCalls, steps, options, cmd, invocations,
          tempFile, proceedAnswers, success, confirmAnswer, failures,
          choiceAsked, printed>>

installVars == <<RCLONE_PATH, installLog>>
configVars == <<answers, s3_config, promptRounds, configCalls>>
syncVars == <<cmd, invocations, tempFile, proceedAnswers, success>>

Systems == { "windows", "darwin", "linux", "other" }
SourceDirs == { <<"d">> }

Init ==
    /\ pc = "check_rclone_installed"
    /\ exitCode = -1
    /\ RCLONE_PATH = <<>>
    /\ installLog = <<>>
    /\ source_dir = <<>>
    /\ answers = NoAnswers
    /\ s3_config = NoConfig
    /\ promptRounds = 0
    /\ configCalls = 0
    /\ steps = <<"check_rclone_installed">>
    /\ options = NoOptions
    /\ cmd = <<>>
    /\ invocations = <<>>
    /\ tempFile = "none"
    /\ proceedAnswers = <<>>
    /\ success = FALSE
    /\ confirmAnswer = NotAsked
    /\ failures = {}
    /\ choiceAsked = {}
    /\ printed = {}


(***************************************************************************)
(* main, lines 544-549: detect or install rclone, ask for the source       *)
(***************************************************************************)
\* Variant: the process exits with status 0.
ExitZero(code) ==
    /\ pc' = "done"
    /\ exitCode' = 0

\* sys.exit(1), lines 40 and 47
Exit(code) ==
    /\ pc' = "done"
    /\ exitCode' = code

\* main returns, or the handler of lines 609-610 has printed the error
Finish ==
    /\ pc' = "done"
    /\ exitCode' = 0

\* The function a position of main is in.
StepOf(position) ==
    IF position = "reenter_s3_config" THEN "get_s3_config" ELSE position

StartStep(step) ==
    /\ pc' = step
    /\ steps' = Append(steps, StepOf(step))
    /\ exitCode' = exitCode

\* lines 14-23 and 545
CheckRcloneInstalled ==
    /\ pc = "check_rclone_installed"
    /\ \E found \in BOOLEAN :
          IF found THEN StartStep("get_source_directory")
                   ELSE StartStep("install_rclone")
    /\ UNCHANGED <<installVars, source_dir, configVars, options, syncVars,
                   confirmAnswer, failures, choiceAsked, printed>>

\* lines 197-202: the package managers, in the order of the list
PackageManagers == <<"apt-get", "yum", "dnf", "zypper">>

\* line 198: only apt-get has an update command
HasUpdateCmd(pm) == pm = "apt-get"

\* What a machine answers to the commands of lines 207-218: each package
\* manager is absent, or its update or its install command fails, or it
\* installs rclone; sudo may be missing (subprocess.run then raises
\* FileNotFoundError, which line 221 does not catch).
LinuxMachines ==
    { m \in [ pms : [ Range(PackageManagers) ->
                        {"absent", "update_fails", "install_fails", "installs"} ],
              sudo : BOOLEAN ] :
        \A pm \in Range(PackageManagers) :
            m.pms[pm] = "update_fails" => HasUpdateCmd(pm) }

\* The machines met in the runs of the whole script.
MainLinuxMachines ==
    { m \in LinuxMachines :
        /\ m.sudo
        /\ m.pms["apt-get"] \in {"absent", "installs"}
        /\ m.pms["yum"] \in {"absent", "install_fails"}
        /\ m.pms["dnf"] = "absent"
        /\ m.pms["zypper"] = "absent" }

\* A command of the installer and how it ended: "ok", "failed"
\* (CalledProcessError) or "not_found" (FileNotFoundError).
Ran(command, pm, result) == [command |-> command, pm |-> pm, result |-> result]

\* lines 205-222: one pass of the loop body for pm.  outcome is "installed"
\* (the return of line 219), "failed" (the continue of line 222) or "raised".
TryPackageManager(pm, machine) ==
    LET status == machine.pms[pm]
        which == Ran("which", pm, IF status = "absent" THEN "failed" ELSE "ok")
        update == Ran("update", pm,
                      IF ~machine.sudo THEN "not_found"
                      ELSE IF status = "update_fails" THEN "failed" ELSE "ok")
        install == Ran("install", pm,
                       IF ~machine.sudo THEN "not_found"
                       ELSE IF status = "installs" THEN "ok" ELSE "failed")
        Outcome(last) == CASE last.result = "not_found" -> "raised"
                           [] last.result = "failed" -> "failed"
                           [] OTHER -> "installed"
    IN  IF which.result # "ok"
        THEN [log |-> <<which>>, outcome |-> "failed"]
        ELSE IF HasUpdateCmd(pm) /\ update.result # "ok"
        THEN [log |-> <<which, update>>, outcome |-> Outcome(update)]
        ELSE [log |-> (IF HasUpdateCmd(pm) THEN <<which, update>> ELSE <<which>>)
                          \o <<install>>,
              outcome |-> Outcome(install)]

\* Variant: the loop goes on to the next package manager after an install
\* that succeeded.
LoopGoesOnAfterInstall(outcome) == outcome # "raised"

\* lines 219-222: the loop goes on after a CalledProcessError only
LoopGoesOn(outcome) == outcome = "failed"

\* lines 204-222: the loop over the package managers, from the i-th on
RECURSIVE TryPackageManagers(_, _, _)
TryPackageManagers(i, machine, log) ==
    IF i > Len(PackageManagers)
    THEN [log |-> log, outcome |-> "failed"]
    ELSE LET try == TryPackageManager(PackageManagers[i], machine)
         IN  IF LoopGoesOn(try.outcome)
             THEN TryPackageManagers(i + 1, machine, log \o try.log)
             ELSE [log |-> log \o try.log, outcome |-> try.outcome]

\* lines 194-277: install_rclone_linux.  manual is what the manual
\* installation of lines 224-277 does when it is reached.
InstallRcloneLinux(machine, manual) ==
    LET chain == TryPackageManagers(1, machine, <<>>)
    IN  IF chain.outcome = "installed"
        THEN [log |-> chain.log, outcome |-> "package_manager"]
        ELSE IF chain.outcome = "raised"
        THEN [log |-> chain.log, outcome |-> "raised"]
        ELSE [log |-> Append(chain.log, Ran("download", "manual", "started")),
              outcome |-> manual]

\* Where the zip's binary lands when no package manager installed rclone
\* (lines 49-117, 119-192, 194-277).
InstallerOutcomes(system) ==
    (IF system = "windows" THEN {} ELSE {"package_manager"})
        \cup {"system_dir", "user_dir", "no_extracted_dir", "raised"}

\* lines 113, 188, 273
UserRclonePath(system) ==
    IF system = "windows"
    THEN <<"~","/","r","c","l","o","n","e","/","r","c","l","o","n","e",".","e","x","e">>
    ELSE UserBinRclone

\* What install_rclone_windows, install_rclone_macos or install_rclone_linux
\* does on a machine: the commands run (linux) and where rclone landed.
InstallerRuns(system, machines) ==
    IF system = "linux"
    THEN { InstallRcloneLinux(machine, manual) :
              machine \in machines,
              manual \in InstallerOutcomes(system) \ {"package_manager"} }
    ELSE { [log |-> <<>>, outcome |-> outcome] :
              outcome \in InstallerOutcomes(system) }

\* lines 14-23, called at line 43: 'rclone --version' is run by its bare name,
\* so rclone is found when the place it was installed to is on the PATH of
\* the process (RCLONE_PATH is not used).
RcloneFoundAfter(outcome, onPath) == outcome # "no_extracted_dir" /\ onPath

\* lines 25-47, on the given machines
InstallRcloneOn(machines) ==
    /\ pc = "install_rclone"
    /\ \E system \in Systems :
          IF system = "other"
          THEN /\ Exit(1)
               /\ failures' = failures \cup {"install"}
               /\ printed' = printed \cup {"unsupported_os"}
               /\ UNCHANGED <<RCLONE_PATH, installLog>>
          ELSE \E run \in InstallerRuns(system, machines), onPath \in BOOLEAN :
               /\ installLog' = run.log
               /\ RCLONE_PATH' = IF run.outcome = "user_dir"
                                 THEN UserRclonePath(system)
                                 ELSE RCLONE_PATH
               /\ IF run.outcome = "raised"
                  THEN /\ Finish
                       /\ failures' = failures \cup {"installer_exception"}
                       /\ printed' = printed \cup {"unexpected_error"}
                  ELSE IF RcloneFoundAfter(run.outcome, onPath)
                  THEN /\ pc' = "get_source_directory"
                       /\ exitCode' = exitCode
                       /\ failures' = failures
                       /\ printed' = printed \cup {"installed"}
                  ELSE /\ Exit(1)
                       /\ failures' = failures \cup {"install"}
                       /\ printed' = printed \cup {"install_failed"}
    /\ steps' = IF pc' = "get_source_directory"
                THEN Append(steps, "get_source_directory") ELSE steps
    /\ UNCHANGED <<source_dir, configVars, options, syncVars, confirmAnswer,
                   choiceAsked>>

\* line 546
InstallRclone == InstallRcloneOn(MainLinuxMachines)

\* lines 279-291 and 549-552
GetSourceDirectory ==
    /\ pc = "get_source_directory"
    /\ \E dir \in SourceDirs, isdir \in BOOLEAN :
          IF isdir
          THEN /\ source_dir' = dir
               /\ StartStep("get_s3_config")
               /\ configCalls' = configCalls + 1
          ELSE UNCHANGED <<source_dir, pc, steps, exitCode, configCalls>>
    /\ UNCHANGED <<installVars, answers, s3_config, promptRounds, options,
                   syncVars, confirmAnswer, failures, choiceAsked, printed>>

(***************************************************************************)
(* get_s3_config, lines 293-344                                            *)
(***************************************************************************)
\* One presentation of the prompts: either the configuration is returned to
\* the caller, or line 329 calls get_s3_config again.
GetS3ConfigRound(returnTo, rounds) ==
    /\ promptRounds < MaxRounds
    /\ promptRounds' = promptRounds + 1
    /\ \E a \in rounds :
          /\ answers' = a
          /\ IF RequiredPresent(BucketNameOf(a), Strip(a.access), Strip(a.secret))
             THEN /\ s3_config' = ConfigOf(a)
                  /\ StartStep(returnTo)
             ELSE UNCHANGED <<s3_config, pc, steps, exitCode>>
    /\ UNCHANGED <<installVars, source_dir, configCalls, options, syncVars,
                   confirmAnswer, failures, choiceAsked, printed>>

\* Variant: main goes from the configuration straight to the options.
GetS3ConfigUnverified ==
    /\ pc = "get_s3_config"
    /\ GetS3ConfigRound("get_sync_options", MainAnswerRounds)

\* line 552
GetS3Config ==
    /\ pc = "get_s3_config"
    /\ GetS3ConfigRound("verify_aws_credentials", MainAnswerRounds)

\* Variant: the re-entered configuration is verified like the first one.
ReenterS3ConfigVerified ==
    /\ pc = "reenter_s3_config"
    /\ GetS3ConfigRound("verify_aws_credentials", MainAnswerRounds)

\* line 559
ReenterS3Config ==
    /\ pc = "reenter_s3_config"
    /\ GetS3ConfigRound("get_sync_options", MainAnswerRounds)


(***************************************************************************)
(* verify_aws_credentials, lines 346-383, and main, lines 555-580          *)
(***************************************************************************)
VerifyOutcomes == { "returncode_zero", "returncode_nonzero", "aws_not_found" }

\* lines 346-383 and the test of line 555
VerifyAwsCredentials ==
    /\ pc = "verify_aws_credentials"
    /\ \E outcome \in VerifyOutcomes, retry \in YesNoAnswers :
          IF outcome = "returncode_nonzero"
          THEN /\ failures' = failures \cup {"credential"}
               /\ printed' = printed \cup {"verification_failed"}
               /\ choiceAsked' = choiceAsked \cup {"credential"}
               /\ IF IsYes(retry)
                  THEN StartStep("get_sync_options")
                  ELSE /\ pc' = "reenter_prompt"
                       /\ UNCHANGED <<steps, exitCode>>
          ELSE /\ StartStep("get_sync_options")
               /\ UNCHANGED <<failures, choiceAsked, printed>>
    /\ UNCHANGED <<installVars, source_dir, configVars, options, syncVars,
                   confirmAnswer>>

\* lines 556-562
ReenterPrompt ==
    /\ pc = "reenter_prompt"
    /\ \E corrected \in YesNoAnswers :
          IF IsYes(corrected)
          THEN /\ StartStep("reenter_s3_config")
               /\ configCalls' = configCalls + 1
               /\ printed' = printed
          ELSE /\ Finish
               /\ printed' = printed \cup {"cancelled"}
               /\ UNCHANGED <<steps, configCalls>>
    /\ UNCHANGED <<installVars, source_dir, answers, s3_config, promptRounds,
                   options, syncVars, confirmAnswer, failures, choiceAsked>>

\* lines 385-406 and 565
GetSyncOptions ==
    /\ pc = "get_sync_options"
    /\ \E dry_run \in DryRunAnswers, delete \in DeleteAnswers,
          exclude \in ExcludeAnswers :
          options' = OptionsOf(dry_run, delete, exclude)
    /\ pc' = "confirm"
    /\ UNCHANGED <<exitCode, installVars, source_dir, configVars, steps,
                   syncVars, confirmAnswer, failures, choiceAsked, printed>>

\* lines 567-583
Confirm ==
    /\ pc = "confirm"
    /\ \E confirm \in YesNoAnswers :
          /\ confirmAnswer' = confirm
          /\ IF IsYes(confirm)
             THEN /\ StartStep("run_rclone_sync")
                  /\ printed' = printed
             ELSE /\ Finish
                  /\ printed' = printed \cup {"cancelled"}
                  /\ UNCHANGED steps
    /\ UNCHANGED <<installVars, source_dir, configVars, options, syncVars,
                   failures, choiceAsked>>

(***************************************************************************)
(* run_rclone_sync, lines 408-537                                          *)
(***************************************************************************)
\* What subprocess.run(cmd) can do: exit with a code, or raise.
RunOutcomes ==
    { [raised |-> FALSE, returncode |-> 0],
      [raised |-> FALSE, returncode |-> 1],
      [raised |-> TRUE, returncode |-> -1] }

\* Variant: the finally clause leaves the file in place.
TempCleanupSkipped(file) == file

\* lines 532-537: finally: os.unlink(temp_config_file.name)
TempCleanup(file) == "deleted"

\* Variant: the exit code of the command is not looked at.
CommandFailedIgnored(result) == FALSE

\* line 491 and line 516
CommandFailed(result) == result.returncode # 0

\* Variant: a dry run is not followed by the question.
AskToProceedNever(opts) == FALSE

\* line 498
AskToProceed(opts) == opts.dry_run

\* Variant: run_rclone_sync returns True on every path.
SyncReturnTrue(value) ==
    /\ success' = TRUE
    /\ tempFile' = TempCleanup(tempFile)
    /\ pc' = "report"
    /\ UNCHANGED <<exitCode, steps>>

\* A return of run_rclone_sync to line 583, through the finally clause.
SyncReturn(value) ==
    /\ success' = value
    /\ tempFile' = TempCleanup(tempFile)
    /\ pc' = "report"
    /\ UNCHANGED <<exitCode, steps>>

\* lines 410-478: the temporary config file is written, the command is built
SyncStart ==
    /\ pc = "run_rclone_sync"
    /\ tempFile' = "exists"
    /\ cmd' = BuildCmd(RCLONE_PATH, source_dir, s3_config, options)
    /\ pc' = "sync_run"
    /\ UNCHANGED <<exitCode, installVars, source_dir, configVars, steps,
                   options, invocations, proceedAnswers, success,
                   confirmAnswer, failures, choiceAsked, printed>>

\* lines 480-500 and 521-530: the first run of the command
SyncRun ==
    /\ pc = "sync_run"
    /\ \E result \in RunOutcomes :
          /\ invocations' = Append(invocations, [cmd |-> cmd, result |-> result])
          /\ IF result.raised \/ CommandFailed(result)
             THEN /\ SyncReturn(FALSE)
                  /\ failures' = failures \cup {"sync"}
             ELSE /\ failures' = failures
                  /\ IF AskToProceed(options)
                     THEN /\ pc' = "sync_proceed"
                          /\ UNCHANGED <<success, tempFile, exitCode, steps>>
                     ELSE SyncReturn(TRUE)
    /\ UNCHANGED <<installVars, source_dir, configVars, options, cmd,
                   proceedAnswers, confirmAnswer, choiceAsked, printed>>

\* lines 499-506 and 521-523: the prompt after a dry run
SyncProceed ==
    /\ pc = "sync_proceed"
    /\ \E proceed \in YesNoAnswers :
          /\ proceedAnswers' = Append(proceedAnswers, proceed)
          /\ IF IsYes(proceed)
             THEN /\ cmd' = ListRemove(cmd, DryRunFlag)
                  /\ pc' = "sync_actual"
                  /\ UNCHANGED <<success, tempFile, exitCode, steps, printed>>
             ELSE /\ SyncReturn(FALSE)
                  /\ printed' = printed \cup {"sync_cancelled"}
                  /\ UNCHANGED cmd
    /\ UNCHANGED <<installVars, source_dir, configVars, options, invocations,
                   confirmAnswer, failures, choiceAsked>>

\* lines 508-530: the second run of the command
SyncActual ==
    /\ pc = "sync_actual"
    /\ \E result \in RunOutcomes :
          /\ invocations' = Append(invocations, [cmd |-> cmd, result |-> result])
          /\ IF result.raised \/ CommandFailed(result)
             THEN /\ SyncReturn(FALSE)
                  /\ failures' = failures \cup {"sync"}
             ELSE /\ SyncReturn(TRUE)
                  /\ failures' = failures
    /\ UNCHANGED <<installVars, source_dir, configVars, options, cmd,
                   proceedAnswers, confirmAnswer, choiceAsked, printed>>

\* lines 585-598
Report ==
    /\ pc = "report"
    /\ printed' = printed \cup {IF success THEN "sync_completed" ELSE "sync_issues"}
    /\ steps' = Append(steps, "report")
    /\ Finish
    /\ UNCHANGED <<installVars, source_dir, configVars, options, syncVars,
                   confirmAnswer, failures, choiceAsked>>

Next ==
    \/ CheckRcloneInstalled
    \/ InstallRclone
    \/ GetSourceDirectory
    \/ GetS3Config
    \/ ReenterS3Config
    \/ VerifyAwsCredentials
    \/ ReenterPrompt
    \/ GetSyncOptions
    \/ Confirm
    \/ SyncStart
    \/ SyncRun
    \/ SyncProceed
    \/ SyncActual
    \/ Report

Spec == Init /\ [][Next]_vars


(***************************************************************************)
(* get_s3_config by itself: main is at line 552 and the prompts are        *)
(* answered from the full sets of answers.                                 *)
(***************************************************************************)
ConfigInit ==
    /\ pc = "get_s3_config"
    /\ exitCode = -1
    /\ RCLONE_PATH = <<>>
    /\ installLog = <<>>
    /\ source_dir \in SourceDirs
    /\ answers = NoAnswers
    /\ s3_config = NoConfig
    /\ promptRounds = 0
    /\ configCalls = 1
    /\ steps = <<"check_rclone_installed", "get_source_directory", "get_s3_config">>
    /\ options = NoOptions
    /\ cmd = <<>>
    /\ invocations = <<>>
    /\ tempFile = "none"
    /\ proceedAnswers = <<>>
    /\ success = FALSE
    /\ confirmAnswer = NotAsked
    /\ failures = {}
    /\ choiceAsked = {}
    /\ printed = {}

GetS3ConfigAlone ==
    /\ pc = "get_s3_config"
    /\ GetS3ConfigRound("verify_aws_credentials", AnswerRounds)

ConfigSpec == ConfigInit /\ [][GetS3ConfigAlone]_vars


(***************************************************************************)
(* Properties                                                              *)
(***************************************************************************)
\* An answer as the prompts read it: input(...).strip()
Entered(answer) == Strip(answer)

\* The i-th rclone sync command line was run without --dry-run.
ActualSyncAt(i) == ~HasDryRunFlag(invocations[i].cmd)

\* The i-th rclone sync command line was a dry run that exited with code 0.
DryRunSucceededAt(i) ==
    /\ HasDryRunFlag(invocations[i].cmd)
    /\ ~invocations[i].result.raised
    /\ invocations[i].result.returncode = 0

\* run_rclone_sync has returned to main.
SyncReturned == "run_rclone_sync" \in Range(steps) /\ pc \in {"report", "done"}

\* C1 as stated: with the dry-run option enabled, rclone sync is run without
\* --dry-run only after a dry run has exited with code 0 and the user has then
\* answered exactly 'yes' to the proceed prompt.
C1_ExactYes ==
    options.dry_run =>
        \A i \in 1..Len(invocations) :
            ActualSyncAt(i) =>
                /\ \E j \in 1..(i - 1) : DryRunSucceededAt(j)
                /\ proceedAnswers # <<>>
                /\ Entered(proceedAnswers[Len(proceedAnswers)]) = Yes

\* C1 as amended: with the dry-run option enabled, rclone sync is run without
\* --dry-run only after a dry run has exited with code 0 and the user has then
\* given the proceed prompt an answer that reads 'yes' once surrounding
\* whitespace is removed and letters are lower-cased ('YES' counts); with any
\* other answer, or a failed dry run, no run without --dry-run occurs.
C1_YesInAnyCase ==
    options.dry_run =>
        \A i \in 1..Len(invocations) :
            ActualSyncAt(i) =>
                /\ \E j \in 1..(i - 1) : DryRunSucceededAt(j)
                /\ proceedAnswers # <<>>
                /\ Lower(Entered(proceedAnswers[Len(proceedAnswers)])) = Yes

\* A dry run was confirmed with an upper-case answer and the actual sync ran.
C1_Witness ==
    /\ options.dry_run
    /\ Len(invocations) = 2
    /\ DryRunSucceededAt(1)
    /\ ActualSyncAt(2)
    /\ proceedAnswers = << <<"Y","E","S"," ">> >>


\* The place of a step in the order of section 2: detect-or-install,
\* collect configuration, verify, collect options, sync, report.
StepRank(step) ==
    CASE step \in {"check_rclone_installed", "install_rclone"} -> 1
      [] step \in {"get_source_directory", "get_s3_config"} -> 2
      [] step = "verify_aws_credentials" -> 3
      [] step = "get_sync_options" -> 4
      [] step = "run_rclone_sync" -> 5
      [] step = "report" -> 6

\* How often a step was started.
Starts(step) == Cardinality({ i \in 1..Len(steps) : steps[i] = step })

\* The sync command runs only once verification and options are behind it,
\* and the report is printed only once run_rclone_sync has returned.
SyncAfterVerifyAndOptions ==
    /\ (invocations # <<>> \/ "run_rclone_sync" \in Range(steps)) =>
          \E i, j, k \in 1..Len(steps) :
              /\ i < j /\ j < k
              /\ steps[i] = "verify_aws_credentials"
              /\ steps[j] = "get_sync_options"
              /\ steps[k] = "run_rclone_sync"
    /\ "report" \in Range(steps) => SyncReturned /\ invocations # <<>>

\* C2 as stated: the steps of main occur in the fixed order, no step is started
\* after a later one has started, the sync command is not run before
\* verification and options are complete, and the report follows the sync.
C2_NoStepRevisited ==
    /\ \A i, j \in 1..Len(steps) :
          i < j => StepRank(steps[i]) <= StepRank(steps[j])
    /\ SyncAfterVerifyAndOptions

\* C2 as amended: the steps of main occur in the fixed order, with one
\* exception: after a failed credential check that the user neither continues
\* past nor abandons, the S3 configuration is collected a second time, directly
\* after the verification step (which is not repeated).  Apart from that no step
\* is started after a later one has started, every step other than the
\* configuration is started at most once, the sync command is not run before
\* verification and options are complete, and the report follows the sync.
C2_OrderButForReentry ==
    /\ \A i, j \in 1..Len(steps) :
          (i < j /\ StepRank(steps[i]) > StepRank(steps[j])) =>
              /\ steps[i] = "verify_aws_credentials"
              /\ steps[j] = "get_s3_config"
              /\ j = i + 1
              /\ "credential" \in failures
    /\ Starts("get_s3_config") <= 2
    /\ \A step \in Range(steps) : step # "get_s3_config" => Starts(step) = 1
    /\ SyncAfterVerifyAndOptions

\* The configuration was collected again after verification, and the run went
\* on to the report.
C2_Witness ==
    /\ pc = "done"
    /\ steps = <<"check_rclone_installed", "install_rclone",
                 "get_source_directory", "get_s3_config",
                 "verify_aws_credentials", "get_s3_config",
                 "get_sync_options", "run_rclone_sync", "report">>

ConfigReturned == pc = "verify_aws_credentials"

\* C4: a configuration returned by get_s3_config has a non-empty bucket name,
\* access key and secret key; a round of answers in which one of the three is
\* empty after stripping returns nothing and the prompts are presented again.
C4_RequiredFieldsPresent ==
    /\ ConfigReturned =>
          /\ s3_config.bucket_name # <<>>
          /\ s3_config.access_key # <<>>
          /\ s3_config.secret_key # <<>>
    /\ ( /\ promptRounds > 0
         /\ \/ Entered(answers.access) = <<>>
            \/ Entered(answers.secret) = <<>>
            \/ Entered(answers.bucket) = <<>>
            \/ (answers.bucketRetry # NotAsked
                  /\ Entered(answers.bucketRetry) = <<>>)
            \/ (Entered(answers.bucket) = ArnPrefix
                  /\ Lower(Entered(answers.arnProceed)) = Yes) )
          => pc = "get_s3_config" /\ s3_config = NoConfig

\* A configuration was returned after a round that was rejected.
C4_Witness ==
    /\ ConfigReturned
    /\ promptRounds = 2
    /\ s3_config.secret_key = <<"s">>

\* C5: the bucket name of a returned configuration never starts with
\* 'arn:aws:s3:::'.
C5_NoArnPrefix ==
    ConfigReturned => ~StartsWith(s3_config.bucket_name, ArnPrefix)

\* C6: for a non-empty entered destination path the returned s3_path is
\* 's3:<bucket_name>/<p>', p being the entered path without its leading '/'
\* characters (so p does not start with '/'); for an empty one it is
\* 's3:<bucket_name>'.
C6_LeadingSlashesDropped ==
    ConfigReturned =>
        LET entered == Entered(answers.path)
            bucket == s3_config.bucket_name
        IN  IF entered # <<>>
            THEN \E k \in 0..Len(entered) :
                    /\ \A i \in 1..k : entered[i] = "/"
                    /\ k < Len(entered) => entered[k + 1] # "/"
                    /\ s3_config.s3_path =
                          S3Remote \o bucket \o <<"/">>
                                   \o SubSeq(entered, k + 1, Len(entered))
            ELSE s3_config.s3_path = S3Remote \o bucket

\* A path with two leading slashes was entered and a configuration returned.
C6_Witness ==
    /\ ConfigReturned
    /\ answers.path = <<" ","/","/","p">>
    /\ s3_config.s3_path = <<"s","3",":","b","/","p">>

\* C7: the region of a returned configuration is never empty: 'us-east-1' when
\* the answer is empty or only whitespace, otherwise the stripped answer.
C7_RegionDefaulted ==
    ConfigReturned =>
        /\ s3_config.region # <<>>
        /\ IF \A i \in 1..Len(answers.region) : IsSpace(answers.region[i])
           THEN s3_config.region = <<"u","s","-","e","a","s","t","-","1">>
           ELSE s3_config.region = Entered(answers.region)

\* A whitespace-only region was answered and a configuration returned.
C7_Witness ==
    /\ ConfigReturned
    /\ answers.region = <<" ">>
    /\ s3_config.region = DefaultRegion


\* The first run of the command was a dry run that failed.
DryRunFailed ==
    /\ invocations # <<>>
    /\ HasDryRunFlag(invocations[1].cmd)
    /\ (invocations[1].result.raised \/ invocations[1].result.returncode # 0)

\* C8 as stated: after a dry run that exits with a non-zero code the user is
\* offered, once, to proceed with the actual sync, which is run if the user
\* accepts.
C8_OfferAfterFailedDryRun ==
    (SyncReturned /\ DryRunFailed) =>
        /\ Len(proceedAnswers) = 1
        /\ IsYes(proceedAnswers[1]) => Len(invocations) = 2

\* C8 as amended: after a dry run that fails no offer is made: run_rclone_sync
\* returns False without asking and without running the actual sync.  The
\* single offer to proceed is made after a dry run that exited with code 0, and
\* the actual sync is run if and only if the user accepts it.
C8_OfferAfterSuccessfulDryRun ==
    /\ DryRunFailed =>
          /\ proceedAnswers = <<>>
          /\ Len(invocations) = 1
          /\ SyncReturned
          /\ ~success
    /\ (SyncReturned /\ invocations # <<>> /\ DryRunSucceededAt(1)) =>
          /\ Len(proceedAnswers) = 1
          /\ Lower(Entered(proceedAnswers[1])) = Yes <=> Len(invocations) = 2
          /\ Len(invocations) = 2 => ActualSyncAt(2)
    /\ Len(proceedAnswers) <= 1

\* A dry run failed and run_rclone_sync returned without any offer.
C8_Witness ==
    /\ SyncReturned
    /\ DryRunFailed
    /\ ~invocations[1].result.raised
    /\ proceedAnswers = <<>>
    /\ Len(invocations) = 1

\* C9 as stated: the S3 configuration and credential prompts are presented at
\* most twice in a run of main.
C9_PromptsAtMostTwice == promptRounds <= 2

\* C9 as amended: main calls get_s3_config at most twice, once initially and
\* at most once more after a failed credential check, and runs the credential
\* check at most once; each call presents the prompts again for as long as
\* bucket name, access key or secret key is empty, so the number of
\* presentations is not limited to two.
C9_CallsAtMostTwice ==
    /\ configCalls <= 2
    /\ configCalls = Starts("get_s3_config")
    /\ configCalls = 2 => "credential" \in failures
    /\ Starts("verify_aws_credentials") <= 1
    /\ promptRounds >= Starts("get_s3_config") - 1

\* The second call of get_s3_config returned after three presentations.
C9_Witness ==
    /\ configCalls = 2
    /\ promptRounds = 3
    /\ pc = "get_sync_options"

\* The failures section 7 lists as offered a choice.
ListedFailures == {"install", "credential", "sync"}

\* C10 as stated: a failed installation, a failed credential check and a failed
\* sync invocation are each reported with a continue/abort choice: no failure
\* ends the run without the user having been asked.
C10_ChoiceAfterEveryFailure ==
    pc = "done" => (failures \cap ListedFailures) \subseteq choiceAsked

\* C10 as amended: only a failed credential check is reported with a
\* continue/abort choice.  A failed installation (unsupported system, or rclone
\* still not found after installing) is reported as text and ends the run with
\* exit status 1 without any question; a failed sync invocation is reported as
\* text, with troubleshooting advice, and the run ends without any question.
C10_ChoiceAfterCredentialFailureOnly ==
    /\ "credential" \in failures =>
          "credential" \in choiceAsked /\ "verification_failed" \in printed
    /\ "install" \in failures =>
          /\ pc = "done"
          /\ exitCode = 1
          /\ choiceAsked = {}
          /\ printed \cap {"unsupported_os", "install_failed"} # {}
    /\ ("sync" \in failures /\ pc = "done") =>
          /\ "sync" \notin choiceAsked
          /\ "sync_issues" \in printed
          /\ exitCode = 0
    /\ choiceAsked \subseteq {"credential"}

\* The installation failed and the run has ended.
C10_Witness ==
    /\ pc = "done"
    /\ failures = {"install"}
    /\ "install_failed" \in printed


(***************************************************************************)
(* install_rclone by itself: main finds rclone missing and the installer   *)
(* runs on every machine of LinuxMachines.                                 *)
(***************************************************************************)
InstallRcloneAlone == InstallRcloneOn(LinuxMachines)

InstallSpec == Init /\ [][CheckRcloneInstalled \/ InstallRcloneAlone]_vars


\* The package managers install_rclone_linux has looked for, in order.
LookedFor ==
    LET IsWhich(e) == e.command = "which"
        looked == SelectSeq(installLog, IsWhich)
    IN  [ i \in 1..Len(looked) |-> looked[i].pm ]

\* The package manager's command at place k of the log ended well.
InstalledAt(k) ==
    installLog[k].command = "install" /\ installLog[k].result = "ok"

\* Before place k, pm was found absent or one of its commands failed.
GaveUpBefore(pm, k) ==
    \E j \in 1..(k - 1) :
        installLog[j].pm = pm /\ installLog[j].result = "failed"

\* C11: install_rclone_linux looks for apt-get, yum, dnf, zypper in this order
\* and stops at the first whose install command succeeds; the manual download
\* is started only after each of the four was absent or had a command fail
\* (a failed apt-get update included), never after a successful install.
C11_PackageManagersInOrder ==
    /\ Len(LookedFor) <= Len(PackageManagers)
    /\ \A i \in 1..Len(LookedFor) : LookedFor[i] = PackageManagers[i]
    /\ \A k \in 1..Len(installLog) :
          /\ InstalledAt(k) => k = Len(installLog)
          /\ installLog[k].command \in {"update", "install"} =>
                /\ k > 1
                /\ installLog[k - 1].pm = installLog[k].pm
                /\ installLog[k - 1].result = "ok"
          /\ installLog[k].command = "download" =>
                /\ k = Len(installLog)
                /\ \A pm \in Range(PackageManagers) : GaveUpBefore(pm, k)
                /\ \A j \in 1..Len(installLog) : ~InstalledAt(j)

\* The manual download was started after apt-get's update failed, yum was
\* absent, dnf's install failed and zypper was absent.
C11_Witness ==
    /\ pc # "install_rclone"
    /\ installLog =
          << Ran("which", "apt-get", "ok"), Ran("update", "apt-get", "failed"),
             Ran("which", "yum", "failed"),
             Ran("which", "dnf", "ok"), Ran("install", "dnf", "failed"),
             Ran("which", "zypper", "failed"),
             Ran("download", "manual", "started") >>


\* C12: once a manual installation has fallen back to the user directory and
\* recorded the full path in RCLONE_PATH, the run goes on past install_rclone
\* and every rclone sync command line starts with the recorded path, also
\* when the user directory is not on the PATH.
C12_RunGoesOnWithFullPath ==
    RCLONE_PATH # <<>> =>
        /\ "install" \notin failures
        /\ \A i \in 1..Len(invocations) : invocations[i].cmd[1] = RCLONE_PATH


\* The destination argument of the i-th rclone sync command line: it follows
\* the executable, '--config', the config file, 'sync' and the source.
DestinationAt(i) == invocations[i].cmd[6]

\* C13: the destination run_rclone_sync passes to rclone is the s3_path of the
\* configuration, which is the destination of the summary the user confirmed.
C13_DestinationIsS3Path ==
    \A i \in 1..Len(invocations) : DestinationAt(i) = s3_config.s3_path

\* C13 for the configurations get_s3_config can return, before any run: the
\* destination built from a configuration whose bucket name has no '/' is
\* its s3_path, a destination path of slashes only included.
C13_SameWithoutSlashInBucket ==
    (ConfigReturned /\ ~Contains(s3_config.bucket_name, "/")) =>
        S3Dest(s3_config) = s3_config.s3_path


\* The i-th rclone sync command line ran without --dry-run and exited with
\* code 0.
ActualSyncSucceededAt(i) ==
    /\ ActualSyncAt(i)
    /\ ~invocations[i].result.raised
    /\ invocations[i].result.returncode = 0

\* C14: main prints 'Sync operation completed successfully!' if and only if
\* the user answered yes to the configuration summary and an rclone sync
\* without --dry-run was run and exited with code 0; a run whose only
\* invocation was a dry run, or whose last invocation failed or raised, does
\* not report success.
C14_SuccessOnlyAfterActualSync ==
    /\ "sync_completed" \in printed =>
          /\ Lower(Entered(confirmAnswer)) = Yes
          /\ invocations # <<>>
          /\ ActualSyncSucceededAt(Len(invocations))
    /\ pc = "done" =>
          ( "sync_completed" \in printed <=>
              /\ Lower(Entered(confirmAnswer)) = Yes
              /\ \E i \in 1..Len(invocations) : ActualSyncSucceededAt(i) )

\* Success was reported after a dry run, a confirmation and an actual sync
\* that exited with code 0.
C14_Witness ==
    /\ pc = "done"
    /\ "sync_completed" \in printed
    /\ Len(invocations) = 2
    /\ DryRunSucceededAt(1)
    /\ ActualSyncSucceededAt(2)

====
